---- MODULE Spec2Model ----
(***************************************************************************)
(* Model of src/src/content.ts, the content script of the YouTube Videos   *)
(* Tab extension: the address classifier (isChannelMainPage,               *)
(* isOnVideosTab), the address rewriter (getVideosUrl), the tab activator  *)
(* (clickVideosTab) and the orchestrator (switchToVideosTab) with its      *)
(* one-shot retry callback.                                                *)
(*                                                                         *)
(* Addresses are TLA+ strings; the classifier works on their characters    *)
(* (Len, SubSeq, \o), as the regular expression and String.includes do.    *)
(*                                                                         *)
(* Specifications:                                                         *)
(*   SpecClassify  each pure function applied to one address drawn from a  *)
(*                 bounded set of addresses;                               *)
(*   SpecOrch      switchToVideosTab called with an address and an         *)
(*                 injected scheduler that records its calls, over a page  *)
(*                 structure that changes between calls;                   *)
(*   SpecParts     clickVideosTab and navigateToVideosTab called on their  *)
(*                 own;                                                    *)
(*   SpecPage      the script attached to a page of the host site: the     *)
(*                 attach-time pass, the mutation observer's handler, real *)
(*                 one-shot timers, and the host page changing its address *)
(*                 and its structure; SpecPageFair adds the fairness of    *)
(*                 the browser's task queues.                              *)
(***************************************************************************)
EXTENDS Integers, Sequences, FiniteSets, TLC

VARIABLES
    \* ---- SpecClassify: one address and the function applied to it
    host,       \* the text up to the path: scheme and domain
    segs,       \* the pieces of text that follow it
    url,        \* the address: host followed by the pieces
    op,         \* the function applied last ("none" before any)
    ret,        \* the boolean a predicate returned
    out,        \* the text getVideosUrl returned
    napp,       \* how many times getVideosUrl has been applied, to its own result
    \* ---- SpecOrch: the page and the doubles the orchestrator acts on
    dom,        \* document.body: the anchors of the page, in document order
    href,       \* window.location.href
    clicks,     \* every anchor whose click() ran, in order
    timeouts,   \* the calls the injected setTimeoutFn received, in order
    last,       \* the call made last: its name and its argument
    \* ---- SpecPage: the page context the script is attached to
    pc,         \* "loading" until the script has run in the document, then "attached"
    lastUrl,    \* the script's lastUrl
    pending,    \* mutation records are queued for the observer's callback
    invoked,    \* the addresses switchToVideosTab was invoked with by the last step
    acted       \* the address of the latest invocation made by the script's bootstrap or handler

vars ==
    <<host, segs, url, op, ret, out, napp, dom, href, clicks, timeouts, last,
      pc, lastUrl, pending, invoked, acted>>

classifyVars == <<host, segs, url, op, ret, out, napp>>
orchVars == <<dom, href, clicks, timeouts, last>>
pageVars == <<pc, lastUrl, pending, invoked, acted>>

-----------------------------------------------------------------------------
(* Bounds                                                                  *)

\* the most pieces that follow the host in an address of SpecClassify
MaxSegs == 3

\* the most times getVideosUrl is applied to its own result
MaxApply == 2

-----------------------------------------------------------------------------
(* Text helpers: what the JavaScript string and RegExp primitives compute   *)

\* s.startsWith(p)
StartsWith(s, p) == Len(s) >= Len(p) /\ SubSeq(s, 1, Len(p)) = p

\* s.substring(k): the text from the (k+1)-th character on
From(s, k) == SubSeq(s, k + 1, Len(s))

\* [^/]+$ : one or more characters up to the end, none of them a slash
Identifier(s) == Len(s) >= 1 /\ \A k \in 1..Len(s) : SubSeq(s, k, k) # "/"

\* s.indexOf(t, from) >= 0, scanning the positions left to right
RECURSIVE IndexOfFrom(_, _, _)
IndexOfFrom(s, t, i) ==
    IF i + Len(t) - 1 > Len(s) THEN 0
    ELSE IF SubSeq(s, i, i + Len(t) - 1) = t THEN i
    ELSE IndexOfFrom(s, t, i + 1)

\* s.includes(t)
Includes(s, t) == IndexOfFrom(s, t, 1) # 0

\* the pieces of a sequence of texts, joined
RECURSIVE Concat(_)
Concat(ss) == IF ss = <<>> THEN "" ELSE Head(ss) \o Concat(Tail(ss))

-----------------------------------------------------------------------------
(* Address Classifier and Address Rewriter                                 *)

\* the literal the pattern starts with: youtube\.com\/
HostLiteral == "youtube.com/"

\* the four alternatives of the pattern: (@[^/]+)|(c\/[^/]+)|(channel\/[^/]+)|(user\/[^/]+)
ChannelPrefixes == {"@", "c/", "channel/", "user/"}

\* one alternative, then the end of the text
AltToEnd(s, p) == StartsWith(s, p) /\ Identifier(From(s, Len(p)))

\* the pattern matched with its first character at position i of url
MatchAt(u, i) ==
    LET s == From(u, i - 1)
    IN  /\ StartsWith(s, HostLiteral)
        /\ \E p \in ChannelPrefixes : AltToEnd(From(s, Len(HostLiteral)), p)

\* a pattern anchored at the start, after the scheme and the www name
isChannelMainPageAnchored(u) == MatchAt(u, Len("https://www.") + 1)

\* a pattern without the host's name: a slash, an alternative, the end
isChannelMainPageAnyHost(u) ==
    \E i \in 1..Len(u) :
        /\ SubSeq(u, i, i) = "/"
        /\ \E p \in ChannelPrefixes : AltToEnd(From(u, i), p)

\* a pattern that knows the handle style only
isChannelMainPageHandleOnly(u) ==
    \E i \in 1..Len(u) :
        LET s == From(u, i - 1)
        IN  StartsWith(s, HostLiteral) /\ AltToEnd(From(s, Len(HostLiteral)), "@")

\* channelPattern.test(url): the pattern is not anchored at the start, so it
\* may match from any position
isChannelMainPage(u) == \E i \in 1..Len(u) : MatchAt(u, i)

\* a test of the end of the address only
isOnVideosTabEndsWith(u) ==
    Len(u) >= 7 /\ SubSeq(u, Len(u) - 6, Len(u)) = "/videos"

\* url.includes('/videos')
isOnVideosTab(u) == Includes(u, "/videos")

\* a rewriter that forgets the slash
getVideosUrlNoSlash(currentUrl) == currentUrl \o "videos"

\* a rewriter that leaves an address that already ends in the segment alone
getVideosUrlOnce(currentUrl) ==
    IF isOnVideosTabEndsWith(currentUrl) THEN currentUrl ELSE currentUrl \o "/videos"

\* currentUrl + '/videos'
getVideosUrl(currentUrl) == currentUrl \o "/videos"

-----------------------------------------------------------------------------
(* Tab Activator                                                           *)

\* the selectors clickVideosTab tries, in this order
Selectors ==
    << "a[href*=\"/videos\"][role=\"tab\"]",
       "yt-tab-shape[tab-title*=\"Videos\"] a",
       "tp-yt-paper-tab a[href*=\"/videos\"]" >>

\* an ancestor of the anchor has this tag
Within(el, tag) == \E anc \in el.ancestors : anc.tag = tag

\* selectors that all ask for role="tab"
MatchesTabRoleOnly(sel, el) ==
    CASE sel = Selectors[1] -> Includes(el.href, "/videos") /\ el.role = "tab"
      [] sel = Selectors[2] ->
            /\ el.role = "tab"
            /\ \E anc \in el.ancestors :
                   anc.tag = "yt-tab-shape" /\ Includes(anc.title, "Videos")
      [] sel = Selectors[3] ->
            /\ el.role = "tab"
            /\ Within(el, "tp-yt-paper-tab") /\ Includes(el.href, "/videos")

\* a first selector without the role: a[href*="/videos"]
MatchesAnyVideosLink(sel, el) ==
    CASE sel = Selectors[1] -> Includes(el.href, "/videos")
      [] sel = Selectors[2] ->
            \E anc \in el.ancestors :
                anc.tag = "yt-tab-shape" /\ Includes(anc.title, "Videos")
      [] sel = Selectors[3] ->
            Within(el, "tp-yt-paper-tab") /\ Includes(el.href, "/videos")

\* element.matches(selector), for an anchor el and the selectors above
Matches(sel, el) ==
    CASE sel = Selectors[1] -> Includes(el.href, "/videos") /\ el.role = "tab"
      [] sel = Selectors[2] ->
            \E anc \in el.ancestors :
                anc.tag = "yt-tab-shape" /\ Includes(anc.title, "Videos")
      [] sel = Selectors[3] ->
            Within(el, "tp-yt-paper-tab") /\ Includes(el.href, "/videos")

\* document.querySelector(sel): the position of the first anchor, in document
\* order, that matches; 0 for null
querySelector(d, sel) ==
    IF \E i \in 1..Len(d) : Matches(sel, d[i])
    THEN CHOOSE i \in 1..Len(d) :
            Matches(sel, d[i]) /\ \A j \in 1..(i - 1) : ~Matches(sel, d[j])
    ELSE 0

\* a loop that takes the first anchor in document order that matches any of
\* the selectors from the k-th on
FindTabDocumentOrder(d, k) ==
    LET hit(i) == \E n \in k..Len(Selectors) : Matches(Selectors[n], d[i])
    IN  IF \E i \in 1..Len(d) : hit(i)
        THEN CHOOSE i \in 1..Len(d) : hit(i) /\ \A j \in 1..(i - 1) : ~hit(j)
        ELSE 0

\* the for loop of clickVideosTab from the k-th selector on: the position of
\* the anchor it clicks, 0 when it falls out of the loop
RECURSIVE FindTab(_, _)
FindTab(d, k) ==
    IF k > Len(Selectors) THEN 0
    ELSE LET tab == querySelector(d, Selectors[k])
         IN  IF tab # 0 THEN tab ELSE FindTab(d, k + 1)

\* what clickVideosTab() returns on the page d
clickVideosTab(d) == FindTab(d, 1) # 0

\* the click log after clickVideosTab() ran on the page d: tab.click() at most once
Clicked(d, log) == IF FindTab(d, 1) # 0 THEN Append(log, d[FindTab(d, 1)]) ELSE log

-----------------------------------------------------------------------------
(* Orchestrator                                                            *)

\* a delay of five seconds
RetryDelayLong == 5 * 1000

\* the delay given to the scheduler
RetryDelay == 500

\* a guard that only asks whether the address is a channel main page
SkipUnlessChannel(currentUrl) == ~isChannelMainPage(currentUrl)

\* an orchestrator that lets an address be while a retry for it is pending
SkipWhilePending(currentUrl) ==
    \/ ~isChannelMainPage(currentUrl)
    \/ isOnVideosTab(currentUrl)
    \/ \E i \in 1..Len(timeouts) : timeouts[i].callback.currentUrl = currentUrl

\* the early return of switchToVideosTab
Skip(currentUrl) == ~isChannelMainPage(currentUrl) \/ isOnVideosTab(currentUrl)

\* a retry scheduled whatever the click returned
NeedsRetryAlways(clicked) == TRUE

\* whether switchToVideosTab schedules the retry: if (!clicked)
NeedsRetry(clicked) == ~clicked

\* a callback that goes on to the fallback after a click
FallsBackAlways(clicked) == TRUE

\* a callback that never goes on to the fallback
FallsBackNever(clicked) == FALSE

\* a callback that looks at the page's address again before the fallback
FallsBackIfStillEligible(clicked) == ~clicked /\ ~Skip(href)

\* whether the callback goes on to the fallback: if (clickVideosTab()) return
FallsBack(clicked) == ~clicked

\* a rewrite of the page's own location, whatever the argument
navigateToVideosTabFromLocation(currentUrl) == getVideosUrl(href)

\* the address navigateToVideosTab(currentUrl) assigns to window.location.href
navigateToVideosTab(currentUrl) == getVideosUrl(currentUrl)

\* a fallback computed from the page's location
FallbackTargetFromLocation(cb) == navigateToVideosTab(href)

\* the address the callback navigates to: navigateToVideosTab(currentUrl)
\* with the currentUrl its closure captured
FallbackTarget(cb) == navigateToVideosTab(cb.currentUrl)

\* an orchestrator that schedules its retry twice
switchToVideosTabRetryTwice(currentUrl) ==
    IF Skip(currentUrl)
    THEN UNCHANGED <<dom, href, clicks, timeouts>>
    ELSE /\ clicks' = Clicked(dom, clicks)
         /\ timeouts' =
                IF NeedsRetry(clickVideosTab(dom))
                THEN timeouts \o
                        <<[callback |-> [currentUrl |-> currentUrl], delay |-> RetryDelay],
                          [callback |-> [currentUrl |-> currentUrl], delay |-> RetryDelay]>>
                ELSE timeouts
         /\ UNCHANGED <<dom, href>>

\* switchToVideosTab(currentUrl, setTimeoutFn), the whole call
switchToVideosTab(currentUrl) ==
    IF Skip(currentUrl)
    THEN UNCHANGED <<dom, href, clicks, timeouts>>
    ELSE /\ clicks' = Clicked(dom, clicks)
         /\ timeouts' =
                IF NeedsRetry(clickVideosTab(dom))
                THEN Append(timeouts,
                            [callback |-> [currentUrl |-> currentUrl],
                             delay |-> RetryDelay])
                ELSE timeouts
         /\ UNCHANGED <<dom, href>>

\* a callback that schedules itself again when it finds no tab
RetryCallbackAgain(cb) ==
    /\ clicks' = Clicked(dom, clicks)
    /\ timeouts' =
            IF FallsBack(clickVideosTab(dom))
            THEN Append(timeouts, [callback |-> cb, delay |-> RetryDelay])
            ELSE timeouts
    /\ UNCHANGED <<dom, href>>

\* the callback given to the scheduler, run
RetryCallback(cb) ==
    /\ clicks' = Clicked(dom, clicks)
    /\ href' = IF FallsBack(clickVideosTab(dom)) THEN FallbackTarget(cb) ELSE href
    /\ UNCHANGED <<dom, timeouts>>

-----------------------------------------------------------------------------
(* SpecClassify: each pure function applied to an address, once            *)

\* the host site's root, under the names the site answers to
HostRoots == {"https://www.youtube.com", "https://m.youtube.com"}

\* roots of other sites: one whose name contains the host's, one that resembles it
OtherRoots == {"https://www.notyoutube.com", "https://www.youtube-like-site.com"}

\* no root at all: the texts that follow are no addresses
BareTexts == {""}

\* a channel root in each of the four styles
RootPieces == {"/@x", "/c/x", "/channel/x", "/user/x"}

\* a style with no identifier yet
StylePieces == {"/@"}

\* more characters of an identifier
IdentPieces == {"x"}

\* a further path segment
TabPieces == {"/videos", "/about"}

\* the pieces an address is made of, after its host
Pieces ==
    RootPieces \cup StylePieces \cup IdentPieces \cup TabPieces
        \cup {"/", "/watch?v=", "youtube.com", "?a=b"}

\* every sequence of at most n pieces
SeqsUpTo(S, n) == UNION {[1..k -> S] : k \in 0..n}

\* the value of the orchestrator's variables before anything ran
OrchIdle ==
    /\ dom = <<>>
    /\ href = "https://www.youtube.com/"
    /\ clicks = <<>>
    /\ timeouts = <<>>
    /\ last = [op |-> "none", url |-> ""]

\* the value of the page context's variables where no script is attached
PageIdle ==
    /\ pc = "loading"
    /\ lastUrl = ""
    /\ pending = FALSE
    /\ invoked = <<>>
    /\ acted = ""

\* the value of the classifier's variables when no function is applied
ClassifyIdle ==
    /\ host = ""
    /\ segs = <<>>
    /\ url = ""
    /\ op = "none"
    /\ ret = FALSE
    /\ out = ""
    /\ napp = 0

InitClassify ==
    /\ host \in HostRoots \cup OtherRoots \cup BareTexts
    /\ segs \in SeqsUpTo(Pieces, MaxSegs)
    /\ url = host \o Concat(segs)
    /\ op = "none"
    /\ ret = FALSE
    /\ out = ""
    /\ napp = 0
    /\ OrchIdle
    /\ PageIdle

\* isChannelMainPage(url)
ApplyIsChannelMainPage ==
    /\ op = "none"
    /\ op' = "isChannelMainPage"
    /\ ret' = isChannelMainPage(url)
    /\ out' = ""
    /\ napp' = 0
    /\ UNCHANGED <<host, segs, url>>
    /\ UNCHANGED orchVars
    /\ UNCHANGED pageVars

\* isOnVideosTab(url)
ApplyIsOnVideosTab ==
    /\ op = "none"
    /\ op' = "isOnVideosTab"
    /\ ret' = isOnVideosTab(url)
    /\ out' = ""
    /\ napp' = 0
    /\ UNCHANGED <<host, segs, url>>
    /\ UNCHANGED orchVars
    /\ UNCHANGED pageVars

\* getVideosUrl(url)
ApplyGetVideosUrl ==
    /\ op = "none"
    /\ op' = "getVideosUrl"
    /\ ret' = FALSE
    /\ out' = getVideosUrl(url)
    /\ napp' = 1
    /\ UNCHANGED <<host, segs, url>>
    /\ UNCHANGED orchVars
    /\ UNCHANGED pageVars

\* getVideosUrl(getVideosUrl(url)): the caller invokes it on its own result
ApplyGetVideosUrlAgain ==
    /\ op = "getVideosUrl"
    /\ napp < MaxApply
    /\ out' = getVideosUrl(out)
    /\ napp' = napp + 1
    /\ UNCHANGED <<host, segs, url, op, ret>>
    /\ UNCHANGED orchVars
    /\ UNCHANGED pageVars

NextClassify ==
    \/ ApplyIsChannelMainPage
    \/ ApplyIsOnVideosTab
    \/ ApplyGetVideosUrl
    \/ ApplyGetVideosUrlAgain

SpecClassify == InitClassify /\ [][NextClassify]_vars

-----------------------------------------------------------------------------
(* SpecOrch: switchToVideosTab called with an address and a scheduler that *)
(* records its calls; the recorded callbacks are run by hand               *)

\* the most anchors in the page
MaxDom == 2

\* the most clicks recorded before the calls stop
MaxClicks == 1

\* the most scheduler calls recorded before the calls stop
MaxTimeouts == 1

\* the most timers pending in a page context before the script's steps wait
MaxPending == 2

\* <a href="/@x/videos" role="tab">
TabLink == [href |-> "/@x/videos", role |-> "tab", ancestors |-> {}]

\* <yt-tab-shape tab-title="Videos"><a href="/@x/featured">
ShapeLink ==
    [href |-> "/@x/featured", role |-> "",
     ancestors |-> {[tag |-> "yt-tab-shape", title |-> "Videos"]}]

\* <tp-yt-paper-tab><a href="/@x/videos">
PaperLink ==
    [href |-> "/@x/videos", role |-> "",
     ancestors |-> {[tag |-> "tp-yt-paper-tab", title |-> ""]}]

\* <yt-tab-shape tab-title="Home"><a href="/@x/featured" role="tab">
HomeTab ==
    [href |-> "/@x/featured", role |-> "tab",
     ancestors |-> {[tag |-> "yt-tab-shape", title |-> "Home"]}]

\* <div><a href="/@x/videos">: a link to the videos page that is no tab
PlainLink ==
    [href |-> "/@x/videos", role |-> "",
     ancestors |-> {[tag |-> "div", title |-> ""]}]

\* the anchors of the three recognised tab shapes
VideosTabs == {TabLink, ShapeLink, PaperLink}

\* the anchors a page is made of
Anchors == VideosTabs \cup {HomeTab, PlainLink}

\* the addresses switchToVideosTab is called with
OrchAddresses ==
    { "https://www.youtube.com/@x",
      "https://www.youtube.com/channel/x",
      "https://www.youtube.com/@x/videos",
      "https://www.youtube.com/watch?v=1",
      "https://www.youtube.com/videos?u=youtube.com/@x",
      "https://www.youtube.com/user/videosfan",
      "https://www.notyoutube.com/@x",
      "https://www.youtube-like-site.com/@x" }

InitOrch ==
    /\ ClassifyIdle
    /\ OrchIdle
    /\ PageIdle

\* the host page adds an anchor to the page structure, as its i-th anchor
InsertAnchor(el, i) ==
    /\ Len(dom) < MaxDom
    /\ dom' = SubSeq(dom, 1, i - 1) \o <<el>> \o SubSeq(dom, i, Len(dom))
    /\ last' = [op |-> "insertAnchor", url |-> ""]
    /\ UNCHANGED <<href, clicks, timeouts>>
    /\ UNCHANGED classifyVars
    /\ UNCHANGED pageVars

\* the host page removes the i-th anchor from the page structure
RemoveAnchor(i) ==
    /\ dom' = SubSeq(dom, 1, i - 1) \o SubSeq(dom, i + 1, Len(dom))
    /\ last' = [op |-> "removeAnchor", url |-> ""]
    /\ UNCHANGED <<href, clicks, timeouts>>
    /\ UNCHANGED classifyVars
    /\ UNCHANGED pageVars

\* switchToVideosTab(a, setTimeoutFn) is called
CallSwitchToVideosTab(a) ==
    /\ Len(clicks) < MaxClicks
    /\ Len(timeouts) < MaxTimeouts
    /\ switchToVideosTab(a)
    /\ last' = [op |-> "switchToVideosTab", url |-> a]
    /\ UNCHANGED classifyVars
    /\ UNCHANGED pageVars

\* the i-th recorded callback is run
RunCallback(i) ==
    /\ Len(clicks) < MaxClicks
    /\ RetryCallback(timeouts[i].callback)
    /\ last' = [op |-> "callback", url |-> timeouts[i].callback.currentUrl]
    /\ UNCHANGED classifyVars
    /\ UNCHANGED pageVars

NextOrch ==
    \/ \E el \in Anchors, i \in 1..(Len(dom) + 1) : InsertAnchor(el, i)
    \/ \E i \in 1..Len(dom) : RemoveAnchor(i)
    \/ \E a \in OrchAddresses : CallSwitchToVideosTab(a)
    \/ \E i \in 1..Len(timeouts) : RunCallback(i)

SpecOrch == InitOrch /\ [][NextOrch]_vars

-----------------------------------------------------------------------------
(* SpecParts: clickVideosTab and navigateToVideosTab called on their own,   *)
(* over a page structure that changes between calls                        *)

\* the addresses navigateToVideosTab is called with
NavAddresses ==
    { "https://www.youtube.com/@x",
      "https://www.youtube.com/@x/",
      "https://www.youtube.com/watch?v=1" }

\* clickVideosTab() is called; ret holds what it returned
CallClickVideosTab ==
    /\ Len(clicks) < MaxClicks
    /\ clicks' = Clicked(dom, clicks)
    /\ ret' = clickVideosTab(dom)
    /\ last' = [op |-> "clickVideosTab", url |-> ""]
    /\ UNCHANGED <<dom, href, timeouts>>
    /\ UNCHANGED <<host, segs, url, op, out, napp>>
    /\ UNCHANGED pageVars

\* navigateToVideosTab(a) is called
CallNavigateToVideosTab(a) ==
    /\ href' = navigateToVideosTab(a)
    /\ last' = [op |-> "navigateToVideosTab", url |-> a]
    /\ UNCHANGED <<dom, clicks, timeouts>>
    /\ UNCHANGED classifyVars
    /\ UNCHANGED pageVars

NextParts ==
    \/ \E el \in Anchors, i \in 1..(Len(dom) + 1) : InsertAnchor(el, i)
    \/ \E i \in 1..Len(dom) : RemoveAnchor(i)
    \/ CallClickVideosTab
    \/ \E a \in NavAddresses : CallNavigateToVideosTab(a)

SpecParts == InitOrch /\ [][NextParts]_vars

-----------------------------------------------------------------------------
(* SpecPage: the script attached to a page of the host site.  The click of *)
(* a tab is handled by the host page, which moves to the tab's address in  *)
(* place; an assignment to window.location.href loads a new document, and  *)
(* with the old document go its timers, its observer and the clicks the    *)
(* host page had not handled yet.  The script then runs again in the new   *)
(* document.  Timers have one delay, so they fire in the order they were   *)
(* set.                                                                    *)

\* the addresses the host page moves to in place, and is first loaded at
PageAddresses ==
    { "https://www.youtube.com/@x",
      "https://www.youtube.com/@x/videos",
      "https://www.youtube.com/channel/x",
      "https://www.youtube.com/watch?v=1" }

\* the page structures the host page renders
PageStructures == { <<>>, <<PlainLink>>, <<HomeTab, TabLink>> }

\* the address an anchor of the host page leads to
Resolve(el) == "https://www.youtube.com" \o el.href

InitPage ==
    /\ ClassifyIdle
    /\ PageIdle
    /\ dom = <<>>
    /\ href \in PageAddresses
    /\ clicks = <<>>
    /\ timeouts = <<>>
    /\ last = [op |-> "none", url |-> ""]

\* a comparison that finds every address new
UrlChangedAlways(currentUrl) == TRUE

\* a comparison that finds no address new
UrlChangedNever(currentUrl) == FALSE

\* currentUrl !== lastUrl
UrlChanged(currentUrl) == currentUrl # lastUrl

\* a handler that forgets to record the address it saw
ObservedStale(currentUrl) == lastUrl

\* the value handleUrlChange assigns to lastUrl
Observed(currentUrl) == currentUrl

\* handleUrlChange(), the whole call
handleUrlChange ==
    LET currentUrl == href IN
    IF UrlChanged(currentUrl)
    THEN /\ lastUrl' = Observed(currentUrl)
         /\ invoked' = <<currentUrl>>
         /\ acted' = currentUrl
         /\ switchToVideosTab(currentUrl)
    ELSE /\ invoked' = <<>>
         /\ UNCHANGED <<lastUrl, acted, dom, href, clicks, timeouts>>

\* a bootstrap that leaves lastUrl without an address
InitialUrlNone == ""

\* let lastUrl = location.href
InitialUrl == href

\* the script runs in the document: lastUrl is set, the first pass is made
\* and the observer starts observing
Attach ==
    /\ pc = "loading"
    /\ Len(clicks) < MaxClicks
    /\ Len(timeouts) < MaxPending
    /\ pc' = "attached"
    /\ lastUrl' = InitialUrl
    /\ invoked' = <<href>>
    /\ acted' = href
    /\ switchToVideosTab(href)
    /\ pending' = FALSE
    /\ last' = [op |-> "attach", url |-> href]
    /\ UNCHANGED classifyVars

\* the observer's callback is run with the queued mutation records
Notify ==
    /\ pc = "attached"
    /\ pending
    /\ Len(clicks) < MaxClicks
    /\ Len(timeouts) < MaxPending
    /\ pending' = FALSE
    /\ handleUrlChange
    /\ last' = [op |-> "handleUrlChange", url |-> href]
    /\ UNCHANGED pc
    /\ UNCHANGED classifyVars

\* a callback that records the address it leaves the page at
FireTimerRecords ==
    /\ pc = "attached"
    /\ timeouts # <<>>
    /\ Len(clicks) < MaxClicks
    /\ LET cb == Head(timeouts).callback IN
         /\ last' = [op |-> "callback", url |-> cb.currentUrl]
         /\ IF FallsBack(clickVideosTab(dom))
            THEN /\ href' = FallbackTarget(cb)
                 /\ pc' = "loading"
                 /\ dom' = <<>>
                 /\ clicks' = <<>>
                 /\ timeouts' = <<>>
                 /\ pending' = FALSE
            ELSE /\ clicks' = Clicked(dom, clicks)
                 /\ timeouts' = Tail(timeouts)
                 /\ UNCHANGED <<href, pc, dom, pending>>
    /\ invoked' = <<>>
    /\ lastUrl' = href'
    /\ UNCHANGED acted
    /\ UNCHANGED classifyVars

\* the timer set first fires: its callback runs
FireTimer ==
    /\ pc = "attached"
    /\ timeouts # <<>>
    /\ Len(clicks) < MaxClicks
    /\ LET cb == Head(timeouts).callback IN
         /\ last' = [op |-> "callback", url |-> cb.currentUrl]
         /\ IF FallsBack(clickVideosTab(dom))
            THEN /\ href' = FallbackTarget(cb)
                 /\ pc' = "loading"
                 /\ dom' = <<>>
                 /\ clicks' = <<>>
                 /\ timeouts' = <<>>
                 /\ pending' = FALSE
            ELSE /\ clicks' = Clicked(dom, clicks)
                 /\ timeouts' = Tail(timeouts)
                 /\ UNCHANGED <<href, pc, dom, pending>>
    /\ invoked' = <<>>
    /\ UNCHANGED <<lastUrl, acted>>
    /\ UNCHANGED classifyVars

\* the host page moves to another address in place (history.pushState)
HostNavigate(a) ==
    /\ a # href
    /\ href' = a
    /\ last' = [op |-> "pushState", url |-> a]
    /\ invoked' = <<>>
    /\ UNCHANGED <<dom, clicks, timeouts, pc, lastUrl, pending, acted>>
    /\ UNCHANGED classifyVars

\* the host page renders another structure; an attached observer is told
HostRenders(d) ==
    /\ d # dom
    /\ dom' = d
    /\ pending' = (pc = "attached")
    /\ last' = [op |-> "render", url |-> ""]
    /\ invoked' = <<>>
    /\ UNCHANGED <<href, clicks, timeouts, pc, lastUrl, acted>>
    /\ UNCHANGED classifyVars

\* the host page handles the click of a tab: it moves to the tab's address
\* in place and renders the tab's content
HostFollowsClick ==
    /\ clicks # <<>>
    /\ href' = Resolve(Head(clicks))
    /\ clicks' = Tail(clicks)
    /\ pending' = (pc = "attached")
    /\ last' = [op |-> "clickHandled", url |-> ""]
    /\ invoked' = <<>>
    /\ UNCHANGED <<dom, timeouts, pc, lastUrl, acted>>
    /\ UNCHANGED classifyVars

NextPage ==
    \/ Attach
    \/ Notify
    \/ FireTimer
    \/ \E a \in PageAddresses : HostNavigate(a)
    \/ \E d \in PageStructures : HostRenders(d)
    \/ HostFollowsClick

SpecPage == InitPage /\ [][NextPage]_vars

\* the browser runs the script in a loaded document, delivers queued
\* mutation records, fires due timers and dispatches clicks.  The bounds
\* make the handler and the timers wait now and then, which the browser
\* does not: their fairness is strong, so that the waits do not starve them.
SpecPageFair ==
    /\ SpecPage
    /\ WF_vars(Attach)
    /\ SF_vars(Notify)
    /\ SF_vars(FireTimer)
    /\ WF_vars(HostFollowsClick)

-----------------------------------------------------------------------------
(* Claims about the orchestrator, under SpecOrch.  Every step of SpecOrch   *)
(* sets last to the call it makes, so last' names the call a step is.       *)

\* an anchor of one of the three recognised tab shapes is in the page
TabPresent == \E i \in 1..Len(dom) : dom[i] \in VideosTabs

\* the step clicks one tab anchor of the page, once
ClicksOneTab == \E i \in 1..Len(dom) : dom[i] \in VideosTabs /\ clicks' = Append(clicks, dom[i])

\* the step is switchToVideosTab called with an eligible address
EligibleCall ==
    /\ last'.op = "switchToVideosTab"
    /\ isChannelMainPage(last'.url)
    /\ ~isOnVideosTab(last'.url)

\* C1: for every address for which isChannelMainPage is false or
\* isOnVideosTab is true, switchToVideosTab clicks nothing, does not call the
\* scheduler and leaves the location alone, whatever the page holds.
C1_IneligibleNoAction ==
    [][ (/\ last'.op = "switchToVideosTab"
         /\ ~isChannelMainPage(last'.url) \/ isOnVideosTab(last'.url))
            => UNCHANGED <<clicks, timeouts, href>> ]_vars

\* switchToVideosTab was called, over a page that holds a Videos tab, with an
\* address that is a channel main page by the pattern and has '/videos' in it
C1_Witness ==
    /\ last.op = "switchToVideosTab"
    /\ isChannelMainPage(last.url)
    /\ isOnVideosTab(last.url)
    /\ TabPresent
    /\ clicks = <<>> /\ timeouts = <<>>

\* C2: called with an eligible address while a Videos tab is in the page,
\* switchToVideosTab clicks one tab once, does not call the scheduler (so no
\* callback of its own can navigate later) and leaves the location alone.
C2_TabPresentClicksOnce ==
    [][ (EligibleCall /\ TabPresent)
            => /\ ClicksOneTab
               /\ UNCHANGED <<timeouts, href>> ]_vars

\* an eligible call found the tab: one click, nothing scheduled
C2_Witness ==
    /\ last = [op |-> "switchToVideosTab", url |-> "https://www.youtube.com/channel/x"]
    /\ TabPresent
    /\ Len(clicks) = 1 /\ clicks[1] \in VideosTabs
    /\ timeouts = <<>>
    /\ href = "https://www.youtube.com/"

\* C3: called with an eligible address while no Videos tab is in the page,
\* switchToVideosTab calls the scheduler once, with a callback and the delay
\* 500, and returns: it clicks nothing and leaves the location alone.
C3_NoTabSchedulesRetry ==
    [][ (EligibleCall /\ ~TabPresent)
            => /\ timeouts' = Append(timeouts,
                                     [callback |-> [currentUrl |-> last'.url],
                                      delay |-> 500])
               /\ UNCHANGED <<clicks, href>> ]_vars

\* an eligible call over a page with links but no Videos tab scheduled the retry
C3_Witness ==
    /\ last = [op |-> "switchToVideosTab", url |-> "https://www.youtube.com/@x"]
    /\ dom = <<PlainLink, HomeTab>>
    /\ Len(timeouts) = 1
    /\ clicks = <<>>

\* C4: when the callback runs while no Videos tab is in the page, the
\* location becomes the address its switchToVideosTab call was given,
\* followed by '/videos', and nothing is clicked.
C4_CallbackNavigates ==
    [][ (last'.op = "callback" /\ ~TabPresent)
            => /\ href' = last'.url \o "/videos"
               /\ UNCHANGED clicks ]_vars

\* the callback ran with no tab in the page and navigated
C4_Witness ==
    /\ last = [op |-> "callback", url |-> "https://www.youtube.com/@x"]
    /\ ~TabPresent
    /\ href = "https://www.youtube.com/@x/videos"
    /\ clicks = <<>>

\* C5: when a Videos tab is in the page by the time the callback runs, the
\* callback clicks one tab once and leaves the location alone.
C5_CallbackClicksLateTab ==
    [][ (last'.op = "callback" /\ TabPresent)
            => /\ ClicksOneTab
               /\ UNCHANGED href ]_vars

\* one retry was scheduled (no tab then), a tab appeared, and the callback
\* clicked it: the location never changed, so the one click is the callback's
C5_Witness ==
    /\ last.op = "callback"
    /\ Len(timeouts) = 1
    /\ TabPresent
    /\ Len(clicks) = 1 /\ clicks[1] \in VideosTabs
    /\ href = "https://www.youtube.com/"

\* the domain of an address: the text between "://" and the next slash
HostName(u) ==
    LET a == IndexOfFrom(u, "://", 1)
        s == From(u, a + 2)
        b == IndexOfFrom(s, "/", 1)
    IN  IF b = 0 THEN s ELSE SubSeq(s, 1, b - 1)

\* the address belongs to the host site: its domain is youtube.com or a
\* subdomain of it
OnHostSite(u) ==
    LET h == HostName(u)
    IN  \/ h = "youtube.com"
        \/ Len(h) > Len(".youtube.com")
             /\ From(h, Len(h) - Len(".youtube.com")) = ".youtube.com"

\* C8: for every address of a domain other than the host site, look-alike
\* domains included, isChannelMainPage is false and switchToVideosTab takes
\* no action and does not call the scheduler.
C8_OtherDomainsIgnored ==
    [][ (last'.op = "switchToVideosTab" /\ ~OnHostSite(last'.url))
            => /\ ~isChannelMainPage(last'.url)
               /\ UNCHANGED <<clicks, timeouts, href>> ]_vars

\* C22: the retry is bounded: a call of switchToVideosTab calls the
\* scheduler at most once and clicks at most once; its callback clicks at
\* most once and never calls the scheduler.
C22_RetryBounded ==
    [][ /\ last'.op = "switchToVideosTab"
            => /\ Len(timeouts') <= Len(timeouts) + 1
               /\ Len(clicks') <= Len(clicks) + 1
               /\ SubSeq(timeouts', 1, Len(timeouts)) = timeouts
        /\ last'.op = "callback"
            => /\ timeouts' = timeouts
               /\ Len(clicks') <= Len(clicks) + 1 ]_vars

\* the one callback scheduled for the legacy channel address ran, found no
\* tab and navigated: still one scheduler call on record
C22_Witness ==
    /\ last = [op |-> "callback", url |-> "https://www.youtube.com/channel/x"]
    /\ Len(timeouts) = 1
    /\ href = "https://www.youtube.com/channel/x/videos"
    /\ dom = <<>>
    /\ clicks = <<>>

\* C30: every channel main page is acted on: for every address for which
\* isChannelMainPage is true, switchToVideosTab clicks a tab or calls the
\* scheduler.
C30_EveryChannelActedOn ==
    [][ (last'.op = "switchToVideosTab" /\ isChannelMainPage(last'.url))
            => \/ Len(clicks') = Len(clicks) + 1
               \/ Len(timeouts') = Len(timeouts) + 1 ]_vars

-----------------------------------------------------------------------------
(* Claims about the tab activator and navigateToVideosTab, under SpecParts *)

\* C11: navigateToVideosTab(a) sets the location to a followed by '/videos',
\* computed from its argument and not from the page's location, and clicks
\* nothing.
C11_NavigateUsesArgument ==
    [][ last'.op = "navigateToVideosTab"
            => /\ href' = last'.url \o "/videos"
               /\ UNCHANGED <<clicks, timeouts, dom>> ]_vars

\* navigateToVideosTab was called with an address that is not the page's
\* location before the call, over a page that holds a Videos tab
C11_Witness ==
    /\ last = [op |-> "navigateToVideosTab", url |-> "https://www.youtube.com/@x/"]
    /\ href = "https://www.youtube.com/@x//videos"
    /\ TabPresent
    /\ clicks = <<>>

\* C12: whenever an anchor of one of the three recognised tab shapes is in
\* the page, clickVideosTab returns true and clicks one such anchor once,
\* without changing the location.
C12_TabPresentClicked ==
    [][ (last'.op = "clickVideosTab" /\ TabPresent)
            => /\ ret' = TRUE
               /\ ClicksOneTab
               /\ UNCHANGED <<href, dom, timeouts>> ]_vars

\* clickVideosTab found a tab of the third shape behind a link that is no tab
C12_Witness ==
    /\ last.op = "clickVideosTab"
    /\ dom = <<PlainLink, PaperLink>>
    /\ ret = TRUE
    /\ clicks = <<PaperLink>>

\* C13: clickVideosTab returns false if and only if no anchor of the three
\* recognised shapes is in the page, and then it clicks nothing and changes
\* nothing.
C13_NoTabReturnsFalse ==
    [][ last'.op = "clickVideosTab"
            => /\ (ret' = FALSE) <=> ~TabPresent
               /\ ~TabPresent => UNCHANGED <<clicks, href, dom, timeouts>> ]_vars

\* clickVideosTab gave up on a page whose only links are no Videos tabs
C13_Witness ==
    /\ last.op = "clickVideosTab"
    /\ dom = <<PlainLink, HomeTab>>
    /\ ret = FALSE
    /\ clicks = <<>>

\* the anchor of the page that clickVideosTab is to click: the first anchor
\* of the first shape, in the order of the selectors, that the page holds
Preferred ==
    LET of(el) == \E i \in 1..Len(dom) : dom[i] = el
    IN  IF of(TabLink) THEN TabLink
        ELSE IF of(ShapeLink) THEN ShapeLink
        ELSE PaperLink

\* C26: clickVideosTab tries the three selectors in their order and stops at
\* the first that matches: on a page that holds anchors of several shapes it
\* clicks the anchor of the shape that comes first in that order, wherever
\* the anchors stand in the page, and no other.
C26_SelectorPriority ==
    [][ (last'.op = "clickVideosTab" /\ TabPresent)
            => clicks' = Append(clicks, Preferred) ]_vars

\* an anchor of the third shape stands before one of the first shape, and
\* the one of the first shape was clicked
C26_Witness ==
    /\ last.op = "clickVideosTab"
    /\ dom = <<PaperLink, TabLink>>
    /\ clicks = <<TabLink>>
    /\ ret = TRUE

-----------------------------------------------------------------------------
(* Claims about the attached script, under SpecPage and SpecPageFair.      *)
(* Every step sets last to the step made, and invoked to the addresses the *)
(* orchestrator was invoked with during the step.                          *)

\* the page's address is a channel main page that is not on its Videos tab
EligiblePage == isChannelMainPage(href) /\ ~isOnVideosTab(href)

\* C14: on a mutation notification that finds the current address different
\* from the last observed one, the handler sets the last observed address to
\* the current one and invokes the orchestrator once, with that address.
C14_ChangeObserved ==
    [][ (last'.op = "handleUrlChange" /\ href # lastUrl)
            => /\ lastUrl' = href
               /\ invoked' = <<href>>
               /\ href' = href ]_vars

\* the handler saw the page moved to a channel and scheduled a retry for it
C14_Witness ==
    /\ last.op = "handleUrlChange"
    /\ invoked = <<"https://www.youtube.com/channel/x">>
    /\ lastUrl = "https://www.youtube.com/channel/x"
    /\ \E i \in 1..Len(timeouts) :
          timeouts[i].callback.currentUrl = "https://www.youtube.com/channel/x"

\* C15: a notification that finds the current address equal to the last
\* observed one invokes no orchestrator, leaves the last observed address
\* alone, and clicks, schedules and navigates nothing.
C15_UnchangedAddressIgnored ==
    [][ (last'.op = "handleUrlChange" /\ href = lastUrl)
            => /\ invoked' = <<>>
               /\ UNCHANGED <<lastUrl, clicks, timeouts, href, dom, pc>> ]_vars

\* a notification about a channel page already seen, now showing its Videos
\* tab, was handled and nothing was clicked
C15_Witness ==
    /\ last.op = "handleUrlChange"
    /\ invoked = <<>>
    /\ href = "https://www.youtube.com/@x"
    /\ lastUrl = href
    /\ TabPresent
    /\ clicks = <<>>

\* C16, as claimed: whenever the host page moves to an address in place, the
\* orchestrator is eventually run with that address.
C16_AddressChangeRerun ==
    \A a \in PageAddresses :
        (pc = "attached" /\ last = [op |-> "pushState", url |-> a])
            ~> (invoked = <<a>>)

\* the orchestrator was run with the page's address, now the last observed
Rerun == invoked = <<href>> /\ lastUrl = href

\* a notification found the page back at the last observed address
MovedBack == last.op = "handleUrlChange" /\ invoked = <<>> /\ lastUrl = href

\* C16, amended: whenever a mutation notification is queued while the page's
\* address differs from the last observed one, eventually the orchestrator
\* is run with the address the page has then, unless the notification finds
\* the page back at the last observed address.
C16_QueuedChangeRerun ==
    (pc = "attached" /\ pending /\ href # lastUrl) ~> (Rerun \/ MovedBack)

\* the handler found the page moved to a channel whose Videos tab is shown
\* and the re-run orchestrator clicked it
C16_Witness ==
    /\ last.op = "handleUrlChange"
    /\ invoked = <<"https://www.youtube.com/@x">>
    /\ href = "https://www.youtube.com/@x"
    /\ clicks = <<TabLink>>

\* the step clicked one Videos tab and left the page where it is
Activated ==
    /\ Len(clicks') = Len(clicks) + 1
    /\ clicks'[Len(clicks')] \in VideosTabs
    /\ href' = href
    /\ pc' = "attached"

\* the step loaded the Videos address of the address its callback captured
Navigated ==
    /\ pc' = "loading"
    /\ href' = last'.url \o "/videos"
    /\ Len(clicks') <= Len(clicks)

\* C17: a pending retry callback is never cancelled: pending callbacks go
\* away only in a step that runs a callback, a callback that runs ends in
\* exactly one of the click of a Videos tab and the fallback navigation,
\* and callbacks keep running for as long as some are pending, whatever the
\* address, the notifications and the orchestrator did since they were set
\* (timers fire in the order they were set, so each one's turn comes).
C17_RetryNeverCancelled ==
    /\ [][ Len(timeouts') < Len(timeouts) => last'.op = "callback" ]_vars
    /\ [][ last'.op = "callback" => (Activated # Navigated) ]_vars
    /\ []<>(timeouts = <<>>) \/ []<><<last'.op = "callback">>_vars

\* a callback ran after the page had moved to an address that is no channel
\* and the handler had seen that address
C17_Witness ==
    /\ last = [op |-> "callback", url |-> "https://www.youtube.com/@x"]
    /\ lastUrl = "https://www.youtube.com/watch?v=1"
    /\ clicks = <<TabLink>>
    /\ timeouts = <<>>

\* C18: every click of a tab and every fallback navigation happens while the
\* page's address is a channel main page that is not on its Videos tab.
C18_ActsOnlyOnEligiblePage ==
    [][ (Len(clicks') > Len(clicks) \/ (last'.op = "callback" /\ pc' = "loading"))
            => EligiblePage ]_vars

C20_AtMostOnePending == Len(timeouts) <= 1

\* C20, amended: every orchestrator invocation adds at most one pending
\* retry callback, for the address it was invoked with; callbacks of
\* several invocations can be pending together.
C20_OneRetryPerInvocation ==
    [][ Len(timeouts') > Len(timeouts)
            => /\ Len(invoked') = 1
               /\ timeouts' = Append(timeouts,
                                     [callback |-> [currentUrl |-> invoked'[1]],
                                      delay |-> RetryDelay]) ]_vars

\* the callbacks of two invocations, for two channels, are pending together
C20_Witness ==
    /\ pc = "attached"
    /\ Len(timeouts) = 2
    /\ timeouts[1].callback.currentUrl # timeouts[2].callback.currentUrl

\* the step's invocation clicked one Videos tab and set no timer
ClickedAtOnce ==
    /\ Len(clicks') = Len(clicks) + 1
    /\ clicks'[Len(clicks')] \in VideosTabs
    /\ timeouts' = timeouts

\* the step's invocation clicked nothing and set one timer, for its address
RetryDeferred ==
    /\ clicks' = clicks
    /\ timeouts' = Append(timeouts,
                          [callback |-> [currentUrl |-> invoked'[1]],
                           delay |-> RetryDelay])

\* C21: an eligible invocation of switchToVideosTab has exactly one effect:
\* it clicks one Videos tab at once and sets no timer, or it clicks nothing
\* and sets one timer, whose callback, when it runs, does exactly one of
\* clicking one Videos tab and loading the fallback address, and sets no
\* timer again; the invocation itself never navigates.
C21_ExactlyOneEffect ==
    [][ /\ (Len(invoked') = 1 /\ ~Skip(invoked'[1]))
            => /\ ClickedAtOnce # RetryDeferred
               /\ href' = href
               /\ pc' = "attached"
        /\ last'.op = "callback"
            => /\ Activated # Navigated
               /\ Len(timeouts') < Len(timeouts) ]_vars

\* the callback of an invocation made for the legacy channel address found
\* no tab and loaded that channel's Videos address
C21_Witness ==
    /\ last = [op |-> "callback", url |-> "https://www.youtube.com/channel/x"]
    /\ href = "https://www.youtube.com/channel/x/videos"
    /\ pc = "loading"
    /\ clicks = <<>>
    /\ timeouts = <<>>

\* C23: in every state, lastUrl is the address of the latest orchestrator
\* invocation made by the script's bootstrap or its notification handler.
C23_LastUrlIsLastActedOn == lastUrl = acted

\* the handler acted on a watch page and the host page has since moved to a
\* channel, of which the script has not been told yet
C23_Witness ==
    /\ pc = "attached"
    /\ last.op = "pushState"
    /\ acted = "https://www.youtube.com/watch?v=1"
    /\ lastUrl = acted
    /\ href = "https://www.youtube.com/@x"

\* C24: lastUrl changes only where the script's bootstrap sets it and where
\* the notification handler assigns it; a retry callback leaves it alone,
\* also when it navigates, and so does everything the host page does.
C24_OnlyHandlerSetsLastUrl ==
    [][ lastUrl' # lastUrl => last'.op \in {"attach", "handleUrlChange"} ]_vars

\* a callback loaded a channel's Videos address and lastUrl still holds the
\* channel address the bootstrap gave it
C24_Witness ==
    /\ last = [op |-> "callback", url |-> "https://www.youtube.com/channel/x"]
    /\ pc = "loading"
    /\ href = "https://www.youtube.com/channel/x/videos"
    /\ lastUrl = "https://www.youtube.com/channel/x"

\* C25: when the script attaches, lastUrl becomes the current address and
\* the orchestrator is invoked once, with that address; no notification is
\* handled before the script has attached.
C25_AttachTimePass ==
    [][ /\ last'.op = "attach"
            => /\ pc = "loading"
               /\ lastUrl' = href
               /\ invoked' = <<href>>
               /\ href' = href
        /\ last'.op = "handleUrlChange" => pc = "attached" ]_vars

\* the script attached to a channel page whose tabs were rendered already
\* and its first pass clicked the Videos tab
C25_Witness ==
    /\ last = [op |-> "attach", url |-> "https://www.youtube.com/@x"]
    /\ lastUrl = "https://www.youtube.com/@x"
    /\ invoked = <<"https://www.youtube.com/@x">>
    /\ clicks = <<TabLink>>
    /\ timeouts = <<>>

\* C29: the script never redirects in a loop: the address a fallback
\* navigation loads is on the Videos tab and is no channel main page, and
\* no timer of the page it leaves survives; an invocation made with an
\* address on the Videos tab clicks, schedules and navigates nothing; and a
\* timer is set only while the page's address is not on the Videos tab, so
\* a second fallback navigation needs the address changed in between.
C29_NoRedirectLoop ==
    [][ /\ (last'.op = "callback" /\ pc' = "loading")
            => /\ isOnVideosTab(href')
               /\ ~isChannelMainPage(href')
               /\ timeouts' = <<>>
        /\ (Len(invoked') = 1 /\ isOnVideosTab(invoked'[1]))
            => UNCHANGED <<clicks, timeouts, href>>
        /\ Len(timeouts') > Len(timeouts) => ~isOnVideosTab(href)
        /\ \A a \in OrchAddresses \cup PageAddresses :
              ~Skip(a) => isOnVideosTab(getVideosUrl(a)) /\ Skip(getVideosUrl(a)) ]_vars

\* the script attached again in the page a fallback navigation loaded, and
\* its first pass did nothing
C29_Witness ==
    /\ last = [op |-> "attach", url |-> "https://www.youtube.com/channel/x/videos"]
    /\ pc = "attached"
    /\ href = "https://www.youtube.com/channel/x/videos"
    /\ clicks = <<>>
    /\ timeouts = <<>>

\* C32: the redirect has no memory: every time the handler finds the page
\* moved to an eligible address it attempts the redirect again, and what the
\* invocation does is decided by the address and the page structure alone:
\* with a Videos tab in the page it clicks it, without one it sets a retry,
\* whatever was clicked, scheduled or acted on before in this page context.
C32_NoMemory ==
    [][ (/\ last'.op = "handleUrlChange"
         /\ href # lastUrl
         /\ isChannelMainPage(href) /\ ~isOnVideosTab(href))
            => /\ invoked' = <<href>>
               /\ IF TabPresent THEN ClickedAtOnce ELSE RetryDeferred ]_vars

\* the page came back to a channel for which a retry was already pending,
\* and the handler's invocation set another retry for the same channel
C32_Witness ==
    /\ last.op = "handleUrlChange"
    /\ invoked = <<"https://www.youtube.com/@x">>
    /\ Len(timeouts) = 2
    /\ timeouts[1].callback.currentUrl = "https://www.youtube.com/@x"
    /\ timeouts[2].callback.currentUrl = "https://www.youtube.com/@x"

-----------------------------------------------------------------------------
(* Claims about the classifier and the rewriter, under SpecClassify        *)

\* segs spells a channel root and nothing else: a root piece, or a style
\* followed by an identifier, and then only more identifier characters
ChannelRootShape(ss) ==
    /\ Len(ss) >= 1
    /\ \A k \in 2..Len(ss) : ss[k] \in IdentPieces
    /\ \/ ss[1] \in RootPieces
       \/ ss[1] \in StylePieces /\ Len(ss) >= 2

\* C6: for every address <root>/@handle, <root>/c/<name>, <root>/channel/<id>
\* or <root>/user/<name>, with <root> the host site's root and nothing after
\* the identifier, isChannelMainPage returns true.
C6_ChannelRootsAccepted ==
    (op = "isChannelMainPage" /\ host \in HostRoots /\ ChannelRootShape(segs))
        => ret = TRUE

\* isChannelMainPage was applied to a root of the legacy /channel/ style with
\* a longer identifier, on the host's mobile name
C6_Witness ==
    /\ op = "isChannelMainPage"
    /\ url = "https://m.youtube.com/channel/xx"
    /\ ChannelRootShape(segs)
    /\ ret = TRUE

\* a channel root followed by a further path segment (and whatever follows it)
FurtherSegment(ss) ==
    \E k \in 1..(Len(ss) - 1) :
        ChannelRootShape(SubSeq(ss, 1, k)) /\ ss[k + 1] \in TabPieces

\* a channel root followed by a single slash
TrailingSlash(ss) ==
    Len(ss) >= 2 /\ ChannelRootShape(SubSeq(ss, 1, Len(ss) - 1)) /\ ss[Len(ss)] = "/"

\* an address of the host that is no channel address: the site root, or a
\* watch page with whatever follows in its query
NotAChannel(ss) == ss = <<>> \/ ss = <<"/">> \/ (Len(ss) >= 1 /\ ss[1] = "/watch?v=")

\* C7: isChannelMainPage returns false for a channel address with a further
\* path segment after the identifier, for one with a single trailing slash,
\* and for every address of the host that is not a channel address.
C7_OnlyChannelRoots ==
    (/\ op = "isChannelMainPage"
     /\ host \in HostRoots
     /\ FurtherSegment(segs) \/ TrailingSlash(segs) \/ NotAChannel(segs))
        => ret = FALSE

\* the text t occurs in s: s is some text, then t, then some text
Contains(s, t) ==
    \E i \in 0..(Len(s) - Len(t)) :
        s = SubSeq(s, 1, i) \o t \o From(s, i + Len(t))

\* C9: for every address, isOnVideosTab returns true if and only if the
\* address contains the text '/videos' at some position.
C9_VideosTabIffContains ==
    op = "isOnVideosTab" => (ret <=> Contains(url, "/videos"))

\* isOnVideosTab returned true for an address that has the text in its middle
C9_Witness ==
    /\ op = "isOnVideosTab"
    /\ ret = TRUE
    /\ segs = <<"/watch?v=", "/videos", "?a=b">>

\* the text t, n times
RECURSIVE Rep(_, _)
Rep(t, n) == IF n = 0 THEN "" ELSE t \o Rep(t, n - 1)

\* C10: getVideosUrl(a) is a followed by exactly '/videos', whatever a is;
\* applied to its own result it appends the segment again.
C10_AppendsSegment ==
    op = "getVideosUrl" =>
        /\ Len(out) = Len(url) + napp * Len("/videos")
        /\ SubSeq(out, 1, Len(url)) = url
        /\ From(out, Len(url)) = Rep("/videos", napp)

\* getVideosUrl was applied twice, starting from an address that ends in a
\* slash after a segment that is already '/videos'
C10_Witness ==
    /\ op = "getVideosUrl"
    /\ napp = 2
    /\ segs = <<"/@x", "/videos", "/">>
    /\ out = "https://www.youtube.com/@x/videos//videos/videos"

\* the channel-root paths looked for at the end of an address
ChannelRootTexts == {r \o s : r \in RootPieces, s \in {"", "x"}}

\* texts put before the host's name
PrefixTexts == {"", "https://www.", "https://m.", "http://", "https://www.not", "x"}

Parseable(u) ==
    \E scheme \in {"http://", "https://"} :
        StartsWith(u, scheme) /\ Len(u) > Len(scheme)

\* C28, as claimed: the predicates return a boolean for every text, and
\* false for every text that is no well-formed address.
C28_UnparseableYieldsFalse ==
    (op \in {"isChannelMainPage", "isOnVideosTab"} /\ ~Parseable(url))
        => ret = FALSE

\* C28, amended: the predicates return a boolean for every text; the empty
\* text yields false, a text without 'youtube.com/' yields false from
\* isChannelMainPage and a text without '/videos' yields false from
\* isOnVideosTab.
C28_TotalPredicates ==
    op \in {"isChannelMainPage", "isOnVideosTab"} =>
        /\ ret \in BOOLEAN
        /\ url = "" => ret = FALSE
        /\ (op = "isChannelMainPage" /\ ~Contains(url, "youtube.com/")) => ret = FALSE
        /\ (op = "isOnVideosTab" /\ ~Contains(url, "/videos")) => ret = FALSE

\* isChannelMainPage was applied to a channel path with no scheme and no
\* host before it, and returned false
C28_Witness ==
    /\ op = "isChannelMainPage"
    /\ host = ""
    /\ segs = <<"/@x">>
    /\ ret = FALSE

\* the text after the last slash of an address
AfterLastSlash(u) ==
    LET slashes == {i \in 1..Len(u) : SubSeq(u, i, i) = "/"}
    IN  IF slashes = {} THEN u
        ELSE From(u, CHOOSE i \in slashes : \A j \in slashes : j <= i)

\* C31: every address that switchToVideosTab takes for eligible ends with
\* the channel identifier: no query string and no fragment follows it, so
\* getVideosUrl puts '/videos' right after the identifier, as a path segment.
C31_EligibleEndsWithIdentifier ==
    (op = "isChannelMainPage" /\ ret = TRUE /\ ~isOnVideosTab(url))
        => /\ ~Contains(AfterLastSlash(url), "?")
           /\ ~Contains(AfterLastSlash(url), "#")

====
